---- MODULE Spec2Model ----
(***************************************************************************)
(* tide-whisperer: the GET /{userID} pipeline of the data API.             *)
(*                                                                         *)
(* One request is followed from the token check to the last byte written   *)
(* to the response: CheckToken, the permission cascade, the group-id       *)
(* lookup, generateMongoQuery, the cursor and processResults.  The         *)
(* collaborators (shoreline, gatekeeper, seagull, mongo) are environment   *)
(* choices; the http.ResponseWriter is modelled by the net/http contract   *)
(* (the first Write commits status 200, a later WriteHeader is ignored).   *)
(*                                                                         *)
(* Spec follows one request (GET /{userID} or GET /status), SpecQuery the  *)
(* query builder over all its inputs, SpecConcurrent the requests that     *)
(* fail at the same time and share the package-level error values.         *)
(***************************************************************************)
EXTENDS Integers, Sequences, FiniteSets, TLC

(***************************************************************************)
(* Bounds of the model.                                                    *)
(***************************************************************************)
\* longest cursor (number of documents the query matches)
MaxRecords == 2
\* longest type / subtype parameter, in characters
MaxLen == 3

(***************************************************************************)
(* Strings that the code splits are sequences of characters.               *)
(***************************************************************************)
Chars == {"a", "b", ","}

RECURSIVE SeqsUpTo(_, _)
SeqsUpTo(S, n) ==
    IF n = 0 THEN {<<>>}
    ELSE LET shorter == SeqsUpTo(S, n - 1)
         IN  shorter \cup {Append(s, c) : s \in {t \in shorter : Len(t) = n - 1}, c \in S}

ParamStrings == SeqsUpTo(Chars, MaxLen)

\* strings.Split(s, ","): the pieces between the commas, one more than the
\* number of commas; the empty string gives one empty piece.
RECURSIVE Split(_)
Split(s) ==
    LET commas == {i \in 1..Len(s) : s[i] = ","}
    IN  IF commas = {} THEN <<s>>
        ELSE LET i == CHOOSE j \in commas : \A k \in commas : j <= k
             IN  <<SubSeq(s, 1, i - 1)>> \o Split(SubSeq(s, i + 1, Len(s)))

(***************************************************************************)
(* time.Parse(time.RFC3339Nano, s) and Time.Format(time.RFC3339Nano) on    *)
(* the date strings a caller sends.  A parsed time is <<seconds part,      *)
(* fractional digits without trailing zeros, zone>>; Format prints the     *)
(* fraction only when it is not empty, so "…00.000Z" comes back as "…00Z". *)
(***************************************************************************)
DateStrings ==
    { "",
      "2015-10-10T15:00:00Z",
      "2015-10-10T15:00:00.000Z",
      "2015-10-11T09:30:00.250+02:00",
      "10/10/2015" }

TimeParse(s) ==
    CASE s = "2015-10-10T15:00:00Z"          -> [err |-> FALSE, t |-> <<"2015-10-10T15:00:00", "", "Z">>]
      [] s = "2015-10-10T15:00:00.000Z"      -> [err |-> FALSE, t |-> <<"2015-10-10T15:00:00", "", "Z">>]
      [] s = "2015-10-11T09:30:00.250+02:00" -> [err |-> FALSE, t |-> <<"2015-10-11T09:30:00", "25", "+02:00">>]
      [] OTHER                               -> [err |-> TRUE,  t |-> <<"", "", "">>]

TimeFormat(t) ==
    t[1] \o (IF t[2] = "" THEN "" ELSE "." \o t[2]) \o t[3]

(***************************************************************************)
(* generateMongoQuery.  A bson.M is a function from its keys.              *)
(***************************************************************************)
Put(m, k, v) == (k :> v) @@ m

\* BaseQuery with the two schema-version bounds exchanged
BaseQuery_SwappedBounds(groupId, minSchemaVersion, maxSchemaVersion) ==
    ("_groupId" :> groupId) @@ ("_active" :> TRUE)
        @@ ("_schemaVersion" :> [gte |-> maxSchemaVersion, lte |-> minSchemaVersion])

\* lines 99-101: the clauses every query starts from
BaseQuery(groupId, minSchemaVersion, maxSchemaVersion) ==
    ("_groupId" :> groupId) @@ ("_active" :> TRUE)
        @@ ("_schemaVersion" :> [gte |-> minSchemaVersion, lte |-> maxSchemaVersion])

\* ParseDates with the error of the end date dropped
ParseDates_EndUnchecked(startDateString, endDateString) ==
    LET startDate == TimeParse(startDateString)
        endDate   == TimeParse(endDateString)
    IN  IF startDateString # "" /\ startDate.err THEN [err |-> TRUE, start |-> "", end |-> ""]
        ELSE [err   |-> FALSE,
              start |-> IF startDateString # "" THEN TimeFormat(startDate.t) ELSE "",
              end   |-> IF endDateString # "" THEN TimeFormat(endDate.t) ELSE ""]

\* lines 82-97: each date that is present is parsed and written back in the
\* canonical form; the first one that does not parse ends the function
ParseDates(startDateString, endDateString) ==
    LET startDate == TimeParse(startDateString)
        endDate   == TimeParse(endDateString)
    IN  IF startDateString # "" /\ startDate.err THEN [err |-> TRUE, start |-> "", end |-> ""]
        ELSE IF endDateString # "" /\ endDate.err THEN [err |-> TRUE, start |-> "", end |-> ""]
        ELSE [err   |-> FALSE,
              start |-> IF startDateString # "" THEN TimeFormat(startDate.t) ELSE "",
              end   |-> IF endDateString # "" THEN TimeFormat(endDate.t) ELSE ""]

\* TimeClause with the bound of the end-only case copied from the start-only case
TimeClause_EndAsLowerBound(q, startStr, endStr) ==
    IF startStr # "" /\ endStr # ""
    THEN Put(q, "time", ("$gte" :> startStr) @@ ("$lte" :> endStr))
    ELSE IF startStr # ""
    THEN Put(q, "time", ("$gte" :> startStr))
    ELSE IF endStr # ""
    THEN Put(q, "time", ("$gte" :> endStr))
    ELSE q

\* lines 112-118
TimeClause(q, startStr, endStr) ==
    IF startStr # "" /\ endStr # ""
    THEN Put(q, "time", ("$gte" :> startStr) @@ ("$lte" :> endStr))
    ELSE IF startStr # ""
    THEN Put(q, "time", ("$gte" :> startStr))
    ELSE IF endStr # ""
    THEN Put(q, "time", ("$lte" :> endStr))
    ELSE q

generateMongoQuery(groupId, minSchemaVersion, maxSchemaVersion, startDateString, endDateString, objType, objSubType) ==
    LET objTypes    == Split(objType)
        objSubTypes == Split(objSubType)
        dates       == ParseDates(startDateString, endDateString)
        q0 == BaseQuery(groupId, minSchemaVersion, maxSchemaVersion)
        q1 == IF Len(objTypes) > 0 /\ objTypes[1] # <<>>
              THEN Put(q0, "type", [in |-> objTypes]) ELSE q0
        q2 == IF Len(objSubTypes) > 0 /\ objSubTypes[1] # <<>>
              THEN Put(q1, "subType", [in |-> objSubTypes]) ELSE q1
        q3 == TimeClause(q2, dates.start, dates.end)
    IN  IF dates.err THEN [err |-> TRUE, query |-> <<>>]
        ELSE [err |-> FALSE, query |-> q3]

(***************************************************************************)
(* Configuration and collaborators.                                        *)
(***************************************************************************)
\* config.SchemaVersion.Minimum / Maximum of the deployment
SchemaVersionMinimum == 1
SchemaVersionMaximum == 3

Users == {"u1", "u2"}

\* a nil *TokenData
NilToken == [nil |-> TRUE, UserID |-> "", IsServer |-> FALSE]

\* shorelineClient.CheckToken: what the session service answers for each
\* value of the x-tidepool-session-token header ("" is an absent header)
Tokens == {"", "expired", "tok-u1", "tok-u2", "tok-server", "tok-server-u1"}

CheckToken(token) ==
    CASE token = "tok-u1"        -> [nil |-> FALSE, UserID |-> "u1", IsServer |-> FALSE]
      [] token = "tok-u2"        -> [nil |-> FALSE, UserID |-> "u2", IsServer |-> FALSE]
      [] token = "tok-server"    -> [nil |-> FALSE, UserID |-> "svc", IsServer |-> TRUE]
      [] token = "tok-server-u1" -> [nil |-> FALSE, UserID |-> "u1", IsServer |-> TRUE]
      [] OTHER                   -> NilToken

\* gatekeeperClient.UserInGroup answers with an error or with a permission
\* map; perms[k] is nil ("nil") when the key is absent or null
PermNames == {"root", "view", "upload"}
PermissionSets == [PermNames -> {"nil", "set"}]
NoPerms == [k \in PermNames |-> "nil"]
GatekeeperAnswers ==
    {[err |-> FALSE, perms |-> p] : p \in PermissionSets} \cup {[err |-> TRUE, perms |-> NoPerms]}

\* what seagullClient.GetPrivatePair meets: a host or none, a transport
\* error, the response status, a body that decodes or not
SeagullAnswers ==
    { [host |-> TRUE,  doErr |-> FALSE, status |-> 200, decodes |-> TRUE],
      [host |-> FALSE, doErr |-> FALSE, status |-> 200, decodes |-> TRUE],
      [host |-> TRUE,  doErr |-> TRUE,  status |-> 200, decodes |-> TRUE],
      [host |-> TRUE,  doErr |-> FALSE, status |-> 404, decodes |-> TRUE],
      [host |-> TRUE,  doErr |-> FALSE, status |-> 200, decodes |-> FALSE] }

NilPair == [nil |-> TRUE, ID |-> ""]

GetPrivatePair(userID, answer) ==
    IF ~answer.host THEN NilPair
    ELSE IF answer.doErr THEN NilPair
    ELSE IF answer.status # 200 THEN NilPair
    ELSE IF ~answer.decodes THEN NilPair
    ELSE [nil |-> FALSE, ID |-> "group-" \o userID]

\* documents a cursor yields; json.Marshal fails on "nan" (a float NaN)
Records == {"r1", "r2", "nan"}
Cursors == SeqsUpTo(Records, MaxRecords)

JsonMarshal(record) ==
    IF record = "nan" THEN [err |-> TRUE, bytes |-> ""]
    ELSE [err |-> FALSE, bytes |-> "{" \o record \o "}"]

(***************************************************************************)
(* detailedError and the error_* values.                                   *)
(***************************************************************************)
DetailedError(status, code, message) ==
    [Status |-> status, Id |-> "", Code |-> code, Message |-> message, InternalMessage |-> ""]

error_status_check      == DetailedError(500, "data_status_check", "checking of the status endpoint showed an error")
error_no_view_permisson == DetailedError(403, "data_cant_view", "user is not authorized to view data")
error_no_permissons     == DetailedError(500, "data_perms_error", "error finding permissons for user")
error_running_query     == DetailedError(500, "data_store_error", "internal server error")
error_loading_events    == DetailedError(500, "data_marshal_error", "internal server error")
error_incorrect_params  == DetailedError(500, "params", "incorrect parameters")

setInternalMessage(d, internal) == [d EXCEPT !.InternalMessage = internal]

\* the package-level variables of lines 51-59, by code
PackageErrors ==
    [c \in {"data_status_check", "data_cant_view", "data_perms_error", "data_store_error", "data_marshal_error", "params"} |->
        CASE c = "data_status_check"  -> error_status_check
          [] c = "data_cant_view"     -> error_no_view_permisson
          [] c = "data_perms_error"   -> error_no_permissons
          [] c = "data_store_error"   -> error_running_query
          [] c = "data_marshal_error" -> error_loading_events
          [] c = "params"             -> error_incorrect_params]

\* MarshalError as if InternalMessage were serialized like the other fields
MarshalError_WithInternalMessage(err) ==
    "{status:" \o ToString(err.Status) \o ",id:" \o err.Id \o ",code:" \o err.Code
        \o ",message:" \o err.Message \o ",internalMessage:" \o err.InternalMessage \o "}"

\* json.Marshal of a detailedError: InternalMessage has the tag json:"-"
MarshalError(err) ==
    "{status:" \o ToString(err.Status) \o ",id:" \o err.Id \o ",code:" \o err.Code
        \o ",message:" \o err.Message \o "}"

(***************************************************************************)
(* http.ResponseWriter: status 0 is "header not yet written".  By the      *)
(* contract of net/http a Write made before WriteHeader sends the header   *)
(* with status 200, and a WriteHeader made after that changes nothing (so  *)
(* do headers added later).  The handler runs inside httpgzip.NewHandler,  *)
(* whose writer forwards WriteHeader unchanged and whose first Write sends *)
(* the gzip header to the wrapped writer at once: the same holds with and  *)
(* without compression.  writes are the calls of Write in order; once the  *)
(* client is gone (broken) a Write returns an error, counted in failed.    *)
(***************************************************************************)
NewResponse == [status |-> 0, header |-> <<>>, writes |-> <<>>, broken |-> FALSE, failed |-> 0]

ResHeaderAdd(r, value) ==
    IF r.status = 0 THEN [r EXCEPT !.header = Append(@, value)] ELSE r

ResWrite(r, bytes) ==
    [r EXCEPT !.status = IF @ = 0 THEN 200 ELSE @,
              !.writes = Append(@, bytes),
              !.failed = IF r.broken THEN @ + 1 ELSE @]

ResWriteHeader(r, code) ==
    [r EXCEPT !.status = IF @ = 0 THEN code ELSE @]

RECURSIVE Concat(_)
Concat(ws) == IF ws = <<>> THEN "" ELSE Head(ws) \o Concat(Tail(ws))

Body(r) == Concat(r.writes)

(***************************************************************************)
(* State of one GET /{userID} request.                                     *)
(***************************************************************************)
VARIABLES
    pc,           \* position of the handler
    req,          \* the request: token header, :userID and the query parameters
    gatekeeper,   \* what gatekeeper would answer to UserInGroup for this request
    td,           \* result of CheckToken
    groupId,      \* pair.ID
    query,        \* result of generateMongoQuery
    iter,         \* the mgo.Iter: documents left, documents handed out by Next,
                  \* whether Close reports an error, times closed
    first,        \* processResults.first
    found,        \* processResults.found
    res,          \* the http.ResponseWriter
    logs,         \* lines given to log.Println
    calls,        \* calls made to the collaborators, in order
    openSessions, \* mongo sessions copied and not yet closed
    uuids,        \* ids handed out by uuid.NewV4
    templates,    \* the package-level error_* values, by code
    gor           \* requests that fail at the same time, one goroutine each

vars == <<pc, req, gatekeeper, td, groupId, query, iter, first, found, res, logs, calls, openSessions, uuids, templates, gor>>

NoIter == [docs |-> <<>>, seen |-> <<>>, closeErr |-> FALSE, closed |-> 0]

LogLine(kind, code, id, internal) == [kind |-> kind, code |-> code, id |-> id, internal |-> internal]

\* jsonError: fresh id, log line, marshal, header, body, status (in that order)
jsonError(r, err, uuid) ==
    LET e       == [err EXCEPT !.Id = uuid]
        jsonErr == MarshalError(e)
        r1      == ResHeaderAdd(r, "application/json")
        r2      == ResWrite(r1, jsonErr)
        r3      == ResWriteHeader(r2, e.Status)
    IN  [res |-> r3, log |-> LogLine("jsonError", e.Code, e.Id, e.InternalMessage), envelope |-> jsonErr]

NewV4(n) == "id" \o ToString(n)

\* userCanViewData: the answer and whether UserInGroup was called
userCanViewData(userID, groupID, answer) ==
    IF userID = groupID THEN [can |-> TRUE, called |-> FALSE, logged |-> FALSE]
    ELSE IF answer.err THEN [can |-> FALSE, called |-> TRUE, logged |-> TRUE]
    ELSE [can |-> ~(answer.perms["root"] = "nil" /\ answer.perms["view"] = "nil"),
          called |-> TRUE, logged |-> FALSE]

\* ViewCheck without the td.UserID == userToView operand and without the
\* same test at the head of userCanViewData: every non-server caller is looked up
ViewCheck_NoSelfAccess(t, userToView, answer) ==
    IF t.nil THEN [denied |-> TRUE, called |-> FALSE, logged |-> FALSE]
    ELSE IF t.IsServer THEN [denied |-> FALSE, called |-> FALSE, logged |-> FALSE]
    ELSE [denied |-> answer.err \/ (answer.perms["root"] = "nil" /\ answer.perms["view"] = "nil"),
          called |-> TRUE, logged |-> answer.err]

\* ViewCheck without the td.IsServer operand
ViewCheck_NoServerBypass(t, userToView, answer) ==
    IF t.nil THEN [denied |-> TRUE, called |-> FALSE, logged |-> FALSE]
    ELSE IF t.UserID = userToView THEN [denied |-> FALSE, called |-> FALSE, logged |-> FALSE]
    ELSE LET u == userCanViewData(t.UserID, userToView, answer)
         IN  [denied |-> ~u.can, called |-> u.called, logged |-> u.logged]

\* the condition of the handler's first if, evaluated left to right with
\* Go's short-circuit || : the cascade stops at the first true operand
ViewCheck(t, userToView, answer) ==
    IF t.nil THEN [denied |-> TRUE, called |-> FALSE, logged |-> FALSE]
    ELSE IF t.IsServer THEN [denied |-> FALSE, called |-> FALSE, logged |-> FALSE]
    ELSE IF t.UserID = userToView THEN [denied |-> FALSE, called |-> FALSE, logged |-> FALSE]
    ELSE LET u == userCanViewData(t.UserID, userToView, answer)
         IN  [denied |-> ~u.can, called |-> u.called, logged |-> u.logged]

\* WriteRecord with the separator written after each record instead of
\* before every record but the first
WriteRecord_TrailingSeparator(r, opened, bytes) ==
    IF ~opened
    THEN ResWrite(ResWrite(ResWrite(ResHeaderAdd(r, "application/json"), "["), bytes), ",\n")
    ELSE ResWrite(ResWrite(r, bytes), ",\n")

\* lines 211-218: the else branch of the loop body of processResults
WriteRecord(r, opened, bytes) ==
    IF ~opened
    THEN ResWrite(ResWrite(ResHeaderAdd(r, "application/json"), "["), bytes)
    ELSE ResWrite(ResWrite(r, ",\n"), bytes)

\* the parameters a request carries in the pipeline
ReqParams ==
    { [startdate |-> "", enddate |-> "", type |-> <<>>, subtype |-> <<>>],
      [startdate |-> "2015-10-10T15:00:00.000Z", enddate |-> "", type |-> <<"a">>, subtype |-> <<>>],
      [startdate |-> "", enddate |-> "2015-10-11T09:30:00.250+02:00", type |-> <<",", "a">>, subtype |-> <<"b">>],
      [startdate |-> "10/10/2015", enddate |-> "", type |-> <<>>, subtype |-> <<>>],
      [startdate |-> "2015-10-10T15:00:00Z", enddate |-> "10/10/2015", type |-> <<"a", ",", "b">>, subtype |-> <<>>] }

Requests ==
    { [token |-> t, userToView |-> u, params |-> p] : t \in Tokens, u \in Users, p \in ReqParams }

\* a GET /status request: no token, no :userID, no parameters
StatusRequest ==
    [token |-> "", userToView |-> "", params |-> [startdate |-> "", enddate |-> "", type |-> <<>>, subtype |-> <<>>]]

\* the router hands the request to the GET /{userID} or to the GET /status handler
Init ==
    /\ \/ /\ pc = "CheckToken"
          /\ req \in Requests
          /\ gatekeeper \in GatekeeperAnswers
       \/ /\ pc = "Status"
          /\ req = StatusRequest
          /\ gatekeeper = [err |-> TRUE, perms |-> NoPerms]
    /\ td = NilToken
    /\ groupId = ""
    /\ query = <<>>
    /\ iter = NoIter
    /\ first = FALSE
    /\ found = 0
    /\ res = NewResponse
    /\ logs = <<>>
    /\ calls = <<>>
    /\ openSessions = 0
    /\ uuids = 0
    /\ templates = PackageErrors
    /\ gor = <<>>

\* lines 286-287
DoCheckToken ==
    /\ pc = "CheckToken"
    /\ td' = CheckToken(req.token)
    /\ calls' = Append(calls, "CheckToken")
    /\ pc' = "Authorize"
    /\ UNCHANGED <<req, gatekeeper, groupId, query, iter, first, found, res, logs, openSessions, uuids>>
    /\ UNCHANGED <<templates, gor>>

\* lines 289-292
Authorize ==
    /\ pc = "Authorize"
    /\ LET v  == ViewCheck(td, req.userToView, gatekeeper)
           c1 == IF v.called THEN Append(calls, "UserInGroup") ELSE calls
           l1 == IF v.logged THEN Append(logs, LogLine("log", "", "", "Error looking up user in group")) ELSE logs
           je == jsonError(res, error_no_view_permisson, NewV4(uuids + 1))
       IN  /\ calls' = c1
           /\ IF v.denied
              THEN /\ res' = je.res
                   /\ logs' = Append(l1, je.log)
                   /\ uuids' = uuids + 1
                   /\ pc' = "done"
              ELSE /\ res' = res
                   /\ logs' = l1
                   /\ uuids' = uuids
                   /\ pc' = "GetPrivatePair"
    /\ UNCHANGED <<req, gatekeeper, td, groupId, query, iter, first, found, openSessions>>
    /\ UNCHANGED <<templates, gor>>

\* ResolveGroup without the return after jsonError: the handler goes on with
\* the empty group id
ResolveGroup_NoReturn ==
    /\ pc = "GetPrivatePair"
    /\ \E answer \in SeagullAnswers :
         LET pair == GetPrivatePair(req.userToView, answer)
             je   == jsonError(res, error_no_permissons, NewV4(uuids + 1))
         IN  IF pair.nil
             THEN /\ res' = je.res
                  /\ logs' = Append(logs, je.log)
                  /\ uuids' = uuids + 1
                  /\ groupId' = groupId
                  /\ pc' = "BuildQuery"
             ELSE /\ groupId' = pair.ID
                  /\ pc' = "BuildQuery"
                  /\ UNCHANGED <<res, logs, uuids>>
    /\ calls' = Append(calls, "GetPrivatePair")
    /\ UNCHANGED <<req, gatekeeper, td, query, iter, first, found, openSessions>>
    /\ UNCHANGED <<templates, gor>>

\* lines 294-300
ResolveGroup ==
    /\ pc = "GetPrivatePair"
    /\ \E answer \in SeagullAnswers :
         LET pair == GetPrivatePair(req.userToView, answer)
             je   == jsonError(res, error_no_permissons, NewV4(uuids + 1))
         IN  IF pair.nil
             THEN /\ res' = je.res
                  /\ logs' = Append(logs, je.log)
                  /\ uuids' = uuids + 1
                  /\ groupId' = groupId
                  /\ pc' = "done"
             ELSE /\ groupId' = pair.ID
                  /\ pc' = "BuildQuery"
                  /\ UNCHANGED <<res, logs, uuids>>
    /\ calls' = Append(calls, "GetPrivatePair")
    /\ UNCHANGED <<req, gatekeeper, td, query, iter, first, found, openSessions>>
    /\ UNCHANGED <<templates, gor>>

\* line 302: session.Copy() gives the request a session of its own
SessionCopy(open) == open + 1

\* the deferred Close with its effect lost
SessionClose_Leaked(open) == open

\* lines 253 and 303: the deferred mongoSession.Close() run when the handler returns
SessionClose(open) == open - 1

\* lines 302-313: the session is copied, its Close deferred, then the query is
\* built; on a date that does not parse the handler returns (the deferred
\* Close runs)
BuildQuery ==
    /\ pc = "BuildQuery"
    /\ LET g  == generateMongoQuery(groupId, SchemaVersionMinimum, SchemaVersionMaximum,
                                    req.params.startdate, req.params.enddate,
                                    req.params.type, req.params.subtype)
           je == jsonError(res, error_incorrect_params, NewV4(uuids + 1))
       IN  IF g.err
           THEN /\ res' = je.res
                /\ logs' = logs \o <<LogLine("log", "", "", "Error parsing date"), je.log>>
                /\ uuids' = uuids + 1
                /\ calls' = calls \o <<"Copy", "generateMongoQuery", "SessionClose">>
                /\ openSessions' = SessionClose(SessionCopy(openSessions))
                /\ query' = query
                /\ pc' = "done"
           ELSE /\ query' = g.query
                /\ calls' = calls \o <<"Copy", "generateMongoQuery">>
                /\ openSessions' = SessionCopy(openSessions)
                /\ pc' = "Find"
                /\ UNCHANGED <<res, logs, uuids>>
    /\ UNCHANGED <<req, gatekeeper, td, groupId, iter, first, found>>
    /\ UNCHANGED <<templates, gor>>

\* lines 316-325 and 195-200: the cursor is opened and handed to
\* processResults; what it will yield is mongo's choice
Find ==
    /\ pc = "Find"
    /\ \E docs \in Cursors, closeErr \in BOOLEAN :
         iter' = [docs |-> docs, seen |-> <<>>, closeErr |-> closeErr, closed |-> 0]
    /\ calls' = Append(calls, "Find")
    /\ first' = FALSE
    /\ found' = 0
    /\ logs' = Append(logs, LogLine("log", "", "", "mongo processing started"))
    /\ pc' = "Next"
    /\ UNCHANGED <<req, gatekeeper, td, groupId, query, res, openSessions, uuids>>
    /\ UNCHANGED <<templates, gor>>

\* lines 202-222: one evaluation of the loop condition and, when a document
\* came, one pass through the loop body
IterNext ==
    /\ pc = "Next"
    /\ IF iter.docs = <<>>
       THEN /\ logs' = Append(logs, LogLine("log", "", "", "mongo processing finished"))
            /\ calls' = Append(calls, "Next")
            /\ pc' = "Close"
            /\ UNCHANGED <<iter, first, found, res, openSessions, uuids>>
       ELSE LET m  == JsonMarshal(Head(iter.docs))
                je == jsonError(res, setInternalMessage(error_loading_events, "json: unsupported value: NaN"),
                                NewV4(uuids + 1))
            IN  /\ iter' = [iter EXCEPT !.docs = Tail(@), !.seen = Append(@, Head(iter.docs))]
                /\ found' = found + 1
                /\ IF m.err
                   THEN /\ res' = je.res
                        /\ logs' = Append(logs, je.log)
                        /\ uuids' = uuids + 1
                        /\ first' = first
                        /\ calls' = calls \o <<"Next", "SessionClose">>
                        /\ openSessions' = SessionClose(openSessions)
                        /\ pc' = "done"
                   ELSE /\ res' = WriteRecord(res, first, m.bytes)
                        /\ first' = TRUE
                        /\ calls' = Append(calls, "Next")
                        /\ pc' = "Next"
                        /\ UNCHANGED <<logs, openSessions, uuids>>
    /\ UNCHANGED <<req, gatekeeper, td, groupId, query>>
    /\ UNCHANGED <<templates, gor>>

\* lines 224-231 and the return of the handler (327)
IterClose ==
    /\ pc = "Close"
    /\ LET je == jsonError(res, setInternalMessage(error_running_query, "cursor failed"), NewV4(uuids + 1))
       IN  IF iter.closeErr
           THEN /\ res' = je.res
                /\ logs' = Append(logs, je.log)
                /\ uuids' = uuids + 1
           ELSE /\ res' = ResWrite(res, "]")
                /\ UNCHANGED <<logs, uuids>>
    /\ iter' = [iter EXCEPT !.closed = @ + 1]
    /\ calls' = calls \o <<"Close", "SessionClose">>
    /\ openSessions' = SessionClose(openSessions)
    /\ pc' = "done"
    /\ UNCHANGED <<req, gatekeeper, td, groupId, query, first, found>>
    /\ UNCHANGED <<templates, gor>>

\* lines 249-261: the GET /status handler copies the session, defers its
\* Close, pings and answers
StatusPing ==
    /\ pc = "Status"
    /\ \E pingErr \in BOOLEAN :
         LET je == jsonError(res, setInternalMessage(error_status_check, "no reachable servers"), NewV4(uuids + 1))
         IN  IF pingErr
             THEN /\ res' = je.res
                  /\ logs' = Append(logs, je.log)
                  /\ uuids' = uuids + 1
             ELSE /\ res' = ResWrite(res, "OK\n")
                  /\ UNCHANGED <<logs, uuids>>
    /\ calls' = calls \o <<"Copy", "Ping", "SessionClose">>
    /\ openSessions' = SessionClose(SessionCopy(openSessions))
    /\ pc' = "StatusDone"
    /\ UNCHANGED <<req, gatekeeper, td, groupId, query, iter, first, found>>
    /\ UNCHANGED <<templates, gor>>

\* the client goes away while the response is being streamed
ClientDisconnect ==
    /\ pc \in {"Next", "Close"}
    /\ ~res.broken
    /\ res' = [res EXCEPT !.broken = TRUE]
    /\ UNCHANGED <<pc, req, gatekeeper, td, groupId, query, iter, first, found, logs, calls, openSessions, uuids>>
    /\ UNCHANGED <<templates, gor>>

(***************************************************************************)
(* The query builder on its own: requests that reached line 302 (a server  *)
(* token, the group id resolved) with every combination of the date, type  *)
(* and subtype parameters.                                                 *)
(***************************************************************************)
\* longest subtype parameter, in characters
MaxSubLen == 2

QueryParams ==
    [startdate : DateStrings, enddate : DateStrings,
     type : ParamStrings, subtype : SeqsUpTo(Chars, MaxSubLen)]

InitQuery ==
    /\ pc = "BuildQuery"
    /\ req \in {[token |-> "tok-server", userToView |-> u, params |-> p] : u \in Users, p \in QueryParams}
    /\ gatekeeper = [err |-> TRUE, perms |-> NoPerms]
    /\ td = CheckToken("tok-server")
    /\ groupId = GetPrivatePair(req.userToView, [host |-> TRUE, doErr |-> FALSE, status |-> 200, decodes |-> TRUE]).ID
    /\ query = <<>>
    /\ iter = NoIter
    /\ first = FALSE
    /\ found = 0
    /\ res = NewResponse
    /\ logs = <<>>
    /\ calls = <<"CheckToken", "GetPrivatePair">>
    /\ openSessions = 0
    /\ uuids = 0
    /\ templates = PackageErrors
    /\ gor = <<>>

NextQuery == BuildQuery

SpecQuery == InitQuery /\ [][NextQuery]_vars

Next ==
    \/ DoCheckToken
    \/ Authorize
    \/ ResolveGroup
    \/ BuildQuery
    \/ Find
    \/ IterNext
    \/ IterClose
    \/ ClientDisconnect
    \/ StatusPing

Spec == Init /\ [][Next]_vars

(***************************************************************************)
(* Requests failing concurrently.  net/http runs each request in its own   *)
(* goroutine; the error_* values, the logger and the uuid source are       *)
(* shared by all of them.  A goroutine is followed from the call site of   *)
(* jsonError on: the argument is evaluated (a copy of the package-level    *)
(* value, with the internal message set at the sites that call             *)
(* setInternalMessage), jsonError gives its copy an id and logs it, then   *)
(* marshals and writes it.                                                 *)
(***************************************************************************)
\* number of requests failing at the same time
NumRequests == 2

Goroutines == 1..NumRequests

\* the calls of jsonError: the error value and whether the site sets the internal message
ErrorSites ==
    { [code |-> "data_cant_view",     internal |-> FALSE],
      [code |-> "data_perms_error",   internal |-> FALSE],
      [code |-> "params",             internal |-> FALSE],
      [code |-> "data_marshal_error", internal |-> TRUE],
      [code |-> "data_store_error",   internal |-> TRUE],
      [code |-> "data_status_check",  internal |-> TRUE] }

\* texts of the errors the collaborators return
InternalTexts == {"EOF", "i/o timeout"}

\* setInternalMessage with a pointer receiver: the package-level value is written
AfterSetInternalMessage_PointerReceiver(tpls, code, text) ==
    [tpls EXCEPT ![code] = setInternalMessage(@, text)]

\* lines 64-67: the receiver d is a copy, the assignment to d.InternalMessage
\* leaves the package-level value as it was
AfterSetInternalMessage(tpls, code, text) == tpls

InitConcurrent ==
    /\ pc = "Concurrent"
    /\ req = StatusRequest
    /\ gatekeeper = [err |-> TRUE, perms |-> NoPerms]
    /\ td = NilToken
    /\ groupId = ""
    /\ query = <<>>
    /\ iter = NoIter
    /\ first = FALSE
    /\ found = 0
    /\ res = NewResponse
    /\ logs = <<>>
    /\ calls = <<>>
    /\ openSessions = 0
    /\ uuids = 0
    /\ templates = PackageErrors
    /\ gor \in [Goroutines ->
                  {[pc |-> "call", site |-> site, text |-> text, err |-> DetailedError(0, "", ""),
                    id |-> "", res |-> NewResponse] : site \in ErrorSites, text \in InternalTexts}]

\* lines 208, 225, 256, 290, 296, 310: the argument of jsonError is evaluated
CallJsonError(g) ==
    /\ gor[g].pc = "call"
    /\ LET site == gor[g].site
           arg  == IF site.internal
                   THEN setInternalMessage(templates[site.code], gor[g].text)
                   ELSE templates[site.code]
       IN  /\ gor' = [gor EXCEPT ![g].err = arg, ![g].pc = "log"]
           /\ templates' = IF site.internal
                           THEN AfterSetInternalMessage(templates, site.code, gor[g].text)
                           ELSE templates
    /\ UNCHANGED <<pc, req, gatekeeper, td, groupId, query, iter, first, found, res, logs, calls, openSessions, uuids>>

\* lines 183-185: err.Id is set on jsonError's own copy and the line is logged
LogJsonError(g) ==
    /\ gor[g].pc = "log"
    /\ LET je == jsonError(gor[g].res, gor[g].err, NewV4(uuids + 1))
       IN  /\ logs' = Append(logs, je.log)
           /\ gor' = [gor EXCEPT ![g].id = NewV4(uuids + 1), ![g].pc = "write"]
    /\ uuids' = uuids + 1
    /\ UNCHANGED <<pc, req, gatekeeper, td, groupId, query, iter, first, found, res, calls, openSessions, templates>>

\* lines 187-191: the copy is marshalled and written to the goroutine's response
WriteJsonError(g) ==
    /\ gor[g].pc = "write"
    /\ gor' = [gor EXCEPT ![g].res = jsonError(gor[g].res, gor[g].err, gor[g].id).res, ![g].pc = "done"]
    /\ UNCHANGED <<pc, req, gatekeeper, td, groupId, query, iter, first, found, res, logs, calls, openSessions, uuids, templates>>

NextConcurrent ==
    \E g \in Goroutines :
        \/ CallJsonError(g)
        \/ LogJsonError(g)
        \/ WriteJsonError(g)

SpecConcurrent == InitConcurrent /\ [][NextConcurrent]_vars

(***************************************************************************)
(* Vocabulary of the properties.                                           *)
(***************************************************************************)
Last(q) == q[Len(q)]
Front(q) == SubSeq(q, 1, Len(q) - 1)
Count(q, x) == Cardinality({i \in DOMAIN q : q[i] = x})
Called(name) == \E i \in DOMAIN calls : calls[i] = name
LoggedError(code) == \E i \in DOMAIN logs : logs[i].kind = "jsonError" /\ logs[i].code = code

\* the request ran to the end of the handler
Returned == pc = "done"
\* the cursor was exhausted and closed without error
CursorDrained == Returned /\ iter.closed = 1 /\ ~iter.closeErr /\ iter.docs = <<>>
AllSerialize(recs) == \A i \in DOMAIN recs : ~JsonMarshal(recs[i]).err
\* json.Marshal failed on the last document the cursor handed out
SerializationFailed == Returned /\ iter.seen # <<>> /\ JsonMarshal(Last(iter.seen)).err

\* the writes of a well-formed array of the given records
RECURSIVE SeparatedRecords(_)
SeparatedRecords(recs) ==
    IF recs = <<>> THEN <<>>
    ELSE IF Len(recs) = 1 THEN <<JsonMarshal(recs[1]).bytes>>
    ELSE SeparatedRecords(Front(recs)) \o <<",\n", JsonMarshal(Last(recs)).bytes>>

ArrayWrites(recs) == <<"[">> \o SeparatedRecords(recs) \o <<"]">>

(***************************************************************************)
(* C1: a request whose token CheckToken rejects (nil) ends with HTTP       *)
(* status 403 and with no call after CheckToken: no UserInGroup, no        *)
(* GetPrivatePair, no session copy, no Find.                               *)
(***************************************************************************)
C1_InvalidTokenIs403AndStops ==
    (Returned /\ CheckToken(req.token).nil)
        => (res.status = 403 /\ calls = <<"CheckToken">> /\ openSessions = 0)

(***************************************************************************)
(* C2: when the cursor yields no record and closes without error, the      *)
(* response has status 200 and its body is exactly "[]".                   *)
(***************************************************************************)
C2_EmptyCursorGivesEmptyArray ==
    (CursorDrained /\ iter.seen = <<>>) => (res.status = 200 /\ Body(res) = "[]")

(***************************************************************************)
(* C3: when serialization fails after M records were written, the body is  *)
(* "[" + the M records with their separators + "]", the failure is in the  *)
(* log and no error envelope is written to the body.                       *)
(***************************************************************************)
C3_SerializationFailureClosesArray ==
    SerializationFailed
        => /\ res.writes = ArrayWrites(Front(iter.seen))
           /\ LoggedError("data_marshal_error")
           /\ Count(calls, "Next") = Len(iter.seen)

(***************************************************************************)
(* C4: when the cursor yields N >= 1 records that all serialize and then   *)
(* closes without error, the writes are "[", record 1, then ",\n" and the  *)
(* record for each further one, then "]": N records, N-1 separators, one   *)
(* "[" and it comes first, no separator first or last.                     *)
(***************************************************************************)
C4_RecordsAreSeparatedAndBracketed ==
    (CursorDrained /\ Len(iter.seen) >= 1 /\ AllSerialize(iter.seen))
        => /\ res.writes = ArrayWrites(iter.seen)
           /\ Count(res.writes, ",\n") = Len(iter.seen) - 1
           /\ Count(res.writes, "[") = 1
           /\ Count(res.writes, "]") = 1
           /\ Len(res.writes) = 2 * Len(iter.seen) + 1
           /\ res.writes[1] = "["
           /\ res.writes[2] # ",\n"
           /\ res.writes[Len(res.writes) - 1] # ",\n"
           /\ found = Len(iter.seen)

C4_TwoRecordsStreamed ==
    /\ CursorDrained
    /\ iter.seen = <<"r1", "r2">>
    /\ res.writes = <<"[", "{r1}", ",\n", "{r2}", "]">>

\* what CheckToken answers for the request's token
TokenData == CheckToken(req.token)
\* the handler is past its first if
PastAuthorize == pc \notin {"CheckToken", "Authorize"}
\* the handler went on to the group-id lookup
Authorized == pc = "GetPrivatePair" \/ Called("GetPrivatePair")
\* the handler answered with error_no_view_permisson
Denied == LoggedError("data_cant_view")
\* a valid user token for somebody else's data: the case gatekeeper decides
NeedsLookup == ~TokenData.nil /\ ~TokenData.IsServer /\ TokenData.UserID # req.userToView

(***************************************************************************)
(* C5: with a valid token whose user id is the target userID, the request  *)
(* is authorized and gatekeeper's UserInGroup is never called.             *)
(***************************************************************************)
C5_SelfAccessNeedsNoLookup ==
    (~TokenData.nil /\ TokenData.UserID = req.userToView)
        => /\ ~Called("UserInGroup")
           /\ PastAuthorize => (Authorized /\ ~Denied)

C5_SelfAccessGranted ==
    /\ req.token = "tok-u1" /\ req.userToView = "u1"
    /\ gatekeeper.err
    /\ pc = "GetPrivatePair"

(***************************************************************************)
(* C6: with a valid server token the request is authorized for every       *)
(* subject and target, whatever gatekeeper would answer (no root/view, or  *)
(* an error).                                                              *)
(***************************************************************************)
C6_ServerTokenAlwaysAuthorized ==
    TokenData.IsServer
        => /\ ~Called("UserInGroup")
           /\ PastAuthorize => (Authorized /\ ~Denied)

C6_ServerGrantedDespiteLookupError ==
    /\ req.token = "tok-server" /\ req.userToView = "u2"
    /\ gatekeeper.err
    /\ Called("GetPrivatePair")

(***************************************************************************)
(* C7: for a valid non-server token of another user whose lookup answers   *)
(* without error, the request is authorized iff the PermissionSet has a    *)
(* non-null "root" or "view" (other keys do not count), and a request that *)
(* is not authorized is answered with status 403.                          *)
(***************************************************************************)
C7_RootOrViewDecides ==
    (NeedsLookup /\ ~gatekeeper.err /\ PastAuthorize)
        => /\ Authorized <=> (gatekeeper.perms["root"] # "nil" \/ gatekeeper.perms["view"] # "nil")
           /\ ~Authorized => (Returned /\ Denied /\ res.status = 403)

(***************************************************************************)
(* C8: when the lookup answers with an error the request is not authorized *)
(* (nothing is looked up or queried after it) and the caller is told of an *)
(* internal permission-lookup failure with status 500, not of a 403        *)
(* denial.                                                                 *)
(***************************************************************************)
C8_LookupErrorIs500 ==
    (NeedsLookup /\ gatekeeper.err /\ PastAuthorize)
        => /\ ~Authorized /\ Returned
           /\ calls = <<"CheckToken", "UserInGroup">> /\ openSessions = 0
           /\ LoggedError("data_perms_error") /\ ~Denied
           /\ res.status = 500

(***************************************************************************)
(* C9: every filter generateMongoQuery returns without error has _groupId  *)
(* equal to the resolved group id, _active true and _schemaVersion exactly *)
(* the configured [minimum, maximum], whatever the dates, type and         *)
(* subtype; the caller's parameters only add type, subType and time.       *)
(***************************************************************************)
C9_FixedClausesAlwaysPresent ==
    pc = "Find"
        => /\ {"_groupId", "_active", "_schemaVersion"} \subseteq DOMAIN query
           /\ query["_groupId"] = groupId
           /\ groupId = "group-" \o req.userToView
           /\ query["_active"] = TRUE
           /\ query["_schemaVersion"] = [gte |-> SchemaVersionMinimum, lte |-> SchemaVersionMaximum]
           /\ DOMAIN query \subseteq {"_groupId", "_active", "_schemaVersion", "type", "subType", "time"}

C9_FilterWithEveryOptionalClause ==
    /\ pc = "Find"
    /\ req.params.type = <<"a", ",", "b">>
    /\ req.params.subtype = <<"b">>
    /\ req.params.startdate = "2015-10-10T15:00:00.000Z"
    /\ req.params.enddate = "2015-10-11T09:30:00.250+02:00"
    /\ DOMAIN query = {"_groupId", "_active", "_schemaVersion", "type", "subType", "time"}

(***************************************************************************)
(* C10: an empty type (subtype) gives a filter without a type (subType)    *)
(* clause; every non-empty one, also with an empty first or later token,   *)
(* gives an $in clause whose elements are exactly the pieces of the string *)
(* between its commas.                                                     *)
(***************************************************************************)
RECURSIVE JoinComma(_)
JoinComma(pieces) ==
    IF Len(pieces) = 1 THEN pieces[1]
    ELSE JoinComma(Front(pieces)) \o <<",">> \o Last(pieces)

IsCommaSplit(pieces, s) ==
    /\ Len(pieces) >= 1
    /\ \A i \in DOMAIN pieces : \A j \in DOMAIN pieces[i] : pieces[i][j] # ","
    /\ JoinComma(pieces) = s

MembershipClauseOK(key, s) ==
    IF s = <<>> THEN key \notin DOMAIN query
    ELSE key \in DOMAIN query /\ IsCommaSplit(query[key].in, s)

C10_TypeClauseFollowsParameter ==
    pc = "Find"
        => /\ MembershipClauseOK("type", req.params.type)
           /\ MembershipClauseOK("subType", req.params.subtype)

(***************************************************************************)
(* Vocabulary of the properties on failures.                               *)
(***************************************************************************)
\* the startdate or the enddate of the request is present and does not parse
DateFails ==
    \/ req.params.startdate # "" /\ TimeParse(req.params.startdate).err
    \/ req.params.enddate # "" /\ TimeParse(req.params.enddate).err

ErrorTemplates ==
    { error_status_check, error_no_view_permisson, error_no_permissons,
      error_running_query, error_loading_events, error_incorrect_params }

TemplateOf(code) == CHOOSE t \in ErrorTemplates : t.Code = code

\* the envelope jsonError marshals for a line of its log
EnvelopeOf(line) == MarshalError([TemplateOf(line.code) EXCEPT !.Id = line.id])

ErrorLines == {i \in DOMAIN logs : logs[i].kind = "jsonError"}

\* some Write of the response carried an error envelope
EnvelopeWritten ==
    \E i \in ErrorLines : \E w \in DOMAIN res.writes : res.writes[w] = EnvelopeOf(logs[i])

(***************************************************************************)
(* C11: when startdate or enddate is present and does not parse, query     *)
(* construction aborts, the request ends with the parameter error and no   *)
(* database operation is made for the request at any time: no session      *)
(* checkout, no Find, no cursor Next or Close.                             *)
(***************************************************************************)
C11_BadDateTouchesNoDatabase ==
    DateFails
        => /\ ~Called("Copy") /\ ~Called("Find") /\ ~Called("Next") /\ ~Called("Close")
           /\ Called("generateMongoQuery") => (Returned /\ LoggedError("params") /\ query = <<>>)

(***************************************************************************)
(* C11 as amended: when startdate or enddate is present and does not       *)
(* parse, query construction aborts, the request ends with the parameter   *)
(* error and no query is issued at any time (no Find, no cursor Next or    *)
(* Close); the session copied just before the query is built is closed     *)
(* when the handler returns.                                               *)
(***************************************************************************)
C11_BadDateOpensNoCursor ==
    DateFails
        => /\ ~Called("Find") /\ ~Called("Next") /\ ~Called("Close")
           /\ Called("generateMongoQuery")
                => /\ Returned /\ LoggedError("params") /\ query = <<>>
                   /\ SubSeq(calls, Len(calls) - 2, Len(calls)) = <<"Copy", "generateMongoQuery", "SessionClose">>
                   /\ openSessions = 0

C11_BadEndDateRejected ==
    /\ Returned
    /\ req.params.startdate = "2015-10-10T15:00:00Z" /\ req.params.enddate = "10/10/2015"
    /\ LoggedError("params")
    /\ Called("Copy") /\ ~Called("Find")

(***************************************************************************)
(* C12: when GetPrivatePair yields no pair the request ends with a 500     *)
(* error, the lookup is made once, and no filter is built and no query     *)
(* issued with a default or empty group id.                                *)
(***************************************************************************)
C12_NoPairIs500AndStops ==
    (Called("GetPrivatePair") /\ groupId = "")
        => /\ Returned
           /\ LoggedError("data_perms_error") /\ res.status = 500
           /\ Count(calls, "GetPrivatePair") = 1
           /\ ~Called("Copy") /\ ~Called("generateMongoQuery") /\ ~Called("Find")
           /\ query = <<>>

(***************************************************************************)
(* C13: the stages of a request run in the order CheckToken, permission    *)
(* check, GetPrivatePair, generateMongoQuery, Find, cursor Next and Close; *)
(* a stage runs only after the one before it succeeded, and a failure ends *)
(* the request: no GetPrivatePair for a request that is not authorized, no *)
(* cursor after a failed group lookup or a failed query construction.      *)
(***************************************************************************)
StageRank(name) ==
    CASE name = "CheckToken"         -> 1
      [] name = "UserInGroup"        -> 2
      [] name = "GetPrivatePair"     -> 3
      [] name = "Copy"               -> 4
      [] name = "generateMongoQuery" -> 5
      [] name = "Find"               -> 6
      [] name = "Next"               -> 7
      [] name = "Close"              -> 8
      [] name = "SessionClose"       -> 9
      [] OTHER                       -> 0

DataRequest == pc \notin {"Status", "StatusDone"}

C13_StagesRunInOrderAndStopAtFailure ==
    DataRequest
        => /\ \A i, j \in DOMAIN calls :
                i < j => \/ StageRank(calls[i]) < StageRank(calls[j])
                         \/ calls[i] = "Next" /\ calls[j] = "Next"
           /\ calls # <<>> => calls[1] = "CheckToken"
           /\ (Called("UserInGroup") \/ Called("GetPrivatePair")) => ~td.nil
           /\ Called("GetPrivatePair") => ~Denied
           /\ Called("generateMongoQuery") => (groupId # "" /\ ~LoggedError("data_perms_error"))
           /\ Called("Find") => (query # <<>> /\ ~LoggedError("params"))
           /\ ErrorLines # {} => (Returned /\ Cardinality(ErrorLines) = 1)
           /\ Denied => (~Called("GetPrivatePair") /\ ~Called("Find"))

C13_AllStagesRan ==
    /\ Returned
    /\ calls = <<"CheckToken", "UserInGroup", "GetPrivatePair", "Copy", "generateMongoQuery",
                 "Find", "Next", "Next", "Next", "Close", "SessionClose">>
    /\ ErrorLines = {}

(***************************************************************************)
(* C14: a failure before streaming gives one fixed (status, code) pair,    *)
(* and the HTTP status committed on the response is the status of the      *)
(* envelope in the body: 403 for an invalid token and for a denial, 500    *)
(* for a failed group lookup and for a date that does not parse.           *)
(***************************************************************************)
C14_CommittedStatusIsEnvelopeStatus ==
    (DataRequest /\ Returned /\ ~Called("Find"))
        => \E i \in ErrorLines :
              /\ ErrorLines = {i}
              /\ logs[i].code \in {"data_cant_view", "data_perms_error", "params"}
              /\ res.writes = <<EnvelopeOf(logs[i])>>
              /\ TemplateOf(logs[i].code).Status = (IF logs[i].code = "data_cant_view" THEN 403 ELSE 500)
              /\ res.status = TemplateOf(logs[i].code).Status

(***************************************************************************)
(* C16: the time clause of the filter depends only on which dates are      *)
(* present: both give $gte start and $lte end, the start alone gives $gte  *)
(* alone, the end alone gives $lte alone, none gives no time clause.       *)
(***************************************************************************)
C16_TimeClauseFollowsPresentDates ==
    pc = "Find"
        => LET s == req.params.startdate
               e == req.params.enddate
           IN  /\ (s = "" /\ e = "") => "time" \notin DOMAIN query
               /\ (s # "" \/ e # "") => "time" \in DOMAIN query
               /\ (s # "" /\ e # "")
                    => query["time"] = ("$gte" :> TimeFormat(TimeParse(s).t)) @@ ("$lte" :> TimeFormat(TimeParse(e).t))
               /\ (s # "" /\ e = "") => query["time"] = ("$gte" :> TimeFormat(TimeParse(s).t))
               /\ (s = "" /\ e # "") => query["time"] = ("$lte" :> TimeFormat(TimeParse(e).t))

C16_EndDateAloneGivesUpperBound ==
    /\ pc = "Find"
    /\ req.params.startdate = "" /\ req.params.enddate = "2015-10-11T09:30:00.250+02:00"
    /\ query["time"] = ("$lte" :> "2015-10-11T09:30:00.25+02:00")

(***************************************************************************)
(* C17: when closing the exhausted cursor fails, the failure is logged and *)
(* the body still ends with "]"; no error envelope is written to the body. *)
(***************************************************************************)
C17_CloseFailureStillClosesArray ==
    (Returned /\ iter.closed = 1 /\ iter.closeErr)
        => /\ LoggedError("data_store_error")
           /\ res.writes # <<>> /\ Last(res.writes) = "]"
           /\ ~EnvelopeWritten

(***************************************************************************)
(* C18: once a write to the response has failed because the client is      *)
(* gone, processResults pulls no further record from the cursor: the loop  *)
(* ends although records remain.                                           *)
(***************************************************************************)
C18_NoRecordPulledAfterFailedWrite ==
    [][res.failed > 0 => iter'.seen = iter.seen]_vars

(***************************************************************************)
(* C19: every session copied for a request, in the GET /{userID} and in    *)
(* the GET /status handler, is closed exactly once before the handler      *)
(* returns, on every exit path (streaming to the end, a date that does not *)
(* parse, a serialization failure, a failed cursor Close, a failed ping).  *)
(***************************************************************************)
HandlerReturned == pc \in {"done", "StatusDone"}

C19_CopiedSessionClosedOnce ==
    /\ Count(calls, "Copy") <= 1
    /\ Count(calls, "SessionClose") <= Count(calls, "Copy")
    /\ openSessions = Count(calls, "Copy") - Count(calls, "SessionClose")
    /\ HandlerReturned => (openSessions = 0 /\ Count(calls, "SessionClose") = Count(calls, "Copy"))
    /\ (HandlerReturned /\ (pc = "StatusDone" \/ Called("generateMongoQuery")))
            => (Count(calls, "Copy") = 1 /\ Last(calls) = "SessionClose")

C19_SessionClosedAfterSerializationFailure ==
    /\ SerializationFailed
    /\ Count(calls, "Copy") = 1 /\ Count(calls, "SessionClose") = 1
    /\ openSessions = 0

(***************************************************************************)
(* Vocabulary of the properties on concurrent failures.                    *)
(***************************************************************************)
\* the internal text the failure of goroutine g carries ("" at the sites
\* that do not call setInternalMessage)
InternalOf(g) == IF gor[g].site.internal THEN gor[g].text ELSE ""
\* goroutine g has logged its failure
HasLogged(g) == gor[g].pc \in {"write", "done"}
\* goroutine g has written its response
HasWritten(g) == gor[g].pc = "done"
\* the lines of the log that carry the id of goroutine g
LinesOf(g) == {i \in ErrorLines : logs[i].id = gor[g].id}

(***************************************************************************)
(* C15: the envelope jsonError writes never contains the internal message: *)
(* two failures of the same kind that differ in their internal text and id *)
(* give bodies that are the same once the id is the same, and the internal *)
(* text is in the log line.                                                *)
(***************************************************************************)
C15_EnvelopeHidesInternalMessage ==
    /\ \A g \in Goroutines :
          HasWritten(g)
              => gor[g].res.writes = <<MarshalError([PackageErrors[gor[g].site.code] EXCEPT !.Id = gor[g].id])>>
    /\ \A g, h \in Goroutines :
          (HasWritten(g) /\ HasWritten(h) /\ gor[g].site = gor[h].site)
              => gor[g].res.writes = jsonError(NewResponse, gor[h].err, gor[g].id).res.writes
    /\ \A g \in Goroutines :
          HasLogged(g) => \E i \in LinesOf(g) : logs[i].internal = InternalOf(g)

C15_SameKindDifferentInternalText ==
    /\ HasWritten(1) /\ HasWritten(2)
    /\ gor[1].site = [code |-> "data_store_error", internal |-> TRUE]
    /\ gor[2].site = gor[1].site
    /\ gor[1].err.InternalMessage = "EOF" /\ gor[2].err.InternalMessage = "i/o timeout"
    /\ Cardinality(ErrorLines) = 2

(***************************************************************************)
(* C20: under every interleaving of two failing requests the package-level *)
(* error values keep an empty Id and InternalMessage, and the id and the   *)
(* internal message logged or written for a request are its own, never the *)
(* other's.                                                                *)
(***************************************************************************)
C20_RequestsShareNoErrorState ==
    /\ \A c \in DOMAIN templates : templates[c].Id = "" /\ templates[c].InternalMessage = ""
    /\ templates = PackageErrors
    /\ \A g \in Goroutines :
          HasLogged(g)
              => /\ Cardinality(LinesOf(g)) = 1
                 /\ \A i \in LinesOf(g) : logs[i].code = gor[g].site.code /\ logs[i].internal = InternalOf(g)
                 /\ gor[g].err.InternalMessage = InternalOf(g)
    /\ \A g, h \in Goroutines : (g # h /\ HasLogged(g) /\ HasLogged(h)) => gor[g].id # gor[h].id
    /\ \A g \in Goroutines :
          HasWritten(g)
              => jsonError(NewResponse, [templates[gor[g].site.code] EXCEPT !.InternalMessage = InternalOf(g)], gor[g].id).res
                    = gor[g].res

C20_InterleavedFailuresKeptApart ==
    /\ HasWritten(1) /\ HasWritten(2)
    /\ gor[1].site = [code |-> "data_marshal_error", internal |-> TRUE] /\ gor[1].text = "EOF"
    /\ gor[2].site = [code |-> "data_marshal_error", internal |-> TRUE] /\ gor[2].text = "i/o timeout"
    /\ gor[2].id = "id1" /\ gor[1].id = "id2"
    /\ logs[1].internal = "i/o timeout" /\ logs[2].internal = "EOF"

(***************************************************************************)
(* C21: every cursor the GET /{userID} handler opens is closed, iter.Close *)
(* being called exactly once, before processResults returns, on every exit *)
(* path: the drained cursor, the failed Close and the early return taken   *)
(* when a record does not serialize.                                       *)
(***************************************************************************)
CursorOpened == Called("Find")

C21_CursorClosedOnceOnEveryExit ==
    /\ iter.closed <= 1
    /\ Count(calls, "Close") = iter.closed
    /\ (Returned /\ CursorOpened) => iter.closed = 1

====
